---- MODULE Spec2Model ----
(***************************************************************************)
(* Model of the two scripts of caeriscv:                                   *)
(*   convert_to_little.py  big-endian -> little-endian word converter      *)
(*   read_binary.py        dumper of little-endian words                   *)
(* A behaviour is one invocation of one of the scripts (for the converter, *)
(* optionally followed by a second invocation on the same file system).    *)
(* Files are byte sequences; a 32-bit value is the pair <<hi, lo>> of its  *)
(* 16-bit halves, because unsigned 32-bit values exceed TLC's integers.   *)
(***************************************************************************)
EXTENDS Integers, Sequences, FiniteSets, TLC

\* ------------------------------------------------------------------ bounds
\* Largest number of whole sample words in an initial file.
MaxWords == 2

\* ------------------------------------------------------- program constants
\* in_file.read(4) / binary_file.read(4) / st_size // 4
WordSize == 4

CONVERT == "convert_to_little.py"
DUMP == "read_binary.py"
Paths == {"a", "b"}

\* ------------------------------------------------------------ input samples
WordSamples ==
  { <<0, 0, 0, 1>>, <<1, 0, 0, 0>>, <<2, 0, 0, 0>>,
    <<255, 255, 255, 255>>, <<18, 52, 86, 200>> }
TailSamples == { <<>>, <<1>>, <<0, 2>>, <<255, 0, 1>> }

RECURSIVE WordFiles(_)
WordFiles(n) ==
  IF n = 0 THEN { <<>> }
  ELSE LET shorter == WordFiles(n - 1)
       IN  shorter \cup { f \o w : f \in { g \in shorter : Len(g) = WordSize * (n - 1) },
                                   w \in WordSamples }
FileSamples == { f \o t : f \in WordFiles(MaxWords), t \in TailSamples }
\* what the output path holds before a run
Stale == <<7, 7, 7, 7, 7>>

ConvArgvs ==
  { <<CONVERT>>, <<CONVERT, "a">>, <<CONVERT, "a", "b", "b">> }
  \cup { <<CONVERT, p, q>> : p \in Paths, q \in Paths }
DumpArgvs ==
  { <<DUMP>>, <<DUMP, "a">>, <<DUMP, "a", ",">>, <<DUMP, "a", " ", "x">> }

\* ------------------------------------------------------------ pure helpers
Min(x, y) == IF x < y THEN x ELSE y

\* struct.unpack('>I', data)[0]
UnpackBE_Signed(d) ==
  << d[1] * 256 + d[2] - (IF d[1] >= 128 THEN 65536 ELSE 0), d[3] * 256 + d[4] >>
UnpackBE(d) == << d[1] * 256 + d[2], d[3] * 256 + d[4] >>

\* struct.unpack('<I', data)[0]
UnpackLE_BigEndian(d) == << d[1] * 256 + d[2], d[3] * 256 + d[4] >>
UnpackLE(d) == << d[4] * 256 + d[3], d[2] * 256 + d[1] >>

\* pack('<I', v) raises struct.error unless 0 <= v < 2^32
InRangeU32(v) == v[1] \in 0..65535 /\ v[2] \in 0..65535

\* struct.pack('<I', value)
PackLE_BigEndian(v) == << v[1] \div 256, v[1] % 256, v[2] \div 256, v[2] % 256 >>
PackLE(v) == << v[2] % 256, v[2] \div 256, v[1] % 256, v[1] \div 256 >>

\* f.read(n) on a file whose current content is `content`, at offset pos
ReadAt(content, pos, n) == SubSeq(content, pos + 1, Min(pos + n, Len(content)))

DigitChars == << "0", "1", "2", "3", "4", "5", "6", "7", "8", "9" >>

\* v divided by ten: <<quotient, remainder>>
DivMod10(v) ==
  LET t == (v[1] % 10) * 65536 + v[2]
  IN  << << v[1] \div 10, t \div 10 >>, t % 10 >>

\* str(result): the decimal digits of an unsigned value, most significant first
RECURSIVE Decimal(_)
Decimal(v) ==
  LET qr == DivMod10(v)
  IN  IF qr[1] = <<0, 0>> THEN << DigitChars[qr[2] + 1] >>
      ELSE Decimal(qr[1]) \o << DigitChars[qr[2] + 1] >>

\* ------------------------------------------------------------------- state
VARIABLES
  argv,            \* sys.argv
  fs,              \* file system: path -> bytes
  fs0,             \* fs when the current run started (history)
  pc,              \* position in the script
  in_file,         \* converter input stream
  out_file,        \* converter output stream (buf: written, not yet flushed)
  binary_file,     \* dumper input stream
  data,            \* last chunk read
  ending,          \* dumper separator
  iteration_count, \* dumper word count
  i,               \* dumper loop index
  fault,           \* pending / propagated exception
  exit_code,       \* process exit status, -1 while running
  stdout,          \* pieces printed, in order
  printed,         \* values the dumper has printed (history)
  log,             \* file operations performed by the run (history)
  changed,         \* the dumper's file was truncated by someone else (history)
  runs             \* completed earlier runs (history)

vars == << argv, fs, fs0, pc, in_file, out_file, binary_file, data, ending,
           iteration_count, i, fault, exit_code, stdout, printed, log,
           changed, runs >>

Unopened == [state |-> "unopened", path |-> "", pos |-> 0, buf |-> <<>>]

Op(op, path, pos, bytes) == [op |-> op, path |-> path, pos |-> pos, data |-> bytes]

Prog == argv[1]

Init ==
  /\ argv \in ConvArgvs \cup DumpArgvs
  /\ fs \in { [p \in Paths |-> IF p = "a" THEN f ELSE Stale] : f \in FileSamples }
  /\ fs0 = fs
  /\ pc = "args"
  /\ in_file = Unopened
  /\ out_file = Unopened
  /\ binary_file = Unopened
  /\ data = <<>>
  /\ ending = "\n"
  /\ iteration_count = 0
  /\ i = 0
  /\ fault = "none"
  /\ exit_code = -1
  /\ stdout = <<>>
  /\ printed = <<>>
  /\ log = <<>>
  /\ changed = FALSE
  /\ runs = <<>>

\* ============================================================== converter
\* line 5: len(sys.argv) != 3 is the usage error
ConvArgcOk_AtLeast(args) == Len(args) >= 3
ConvArgcOk(args) == Len(args) = 3

ConvUsage(args) == << "Usage: ", args[1], " <in_file> <out_file>", "\n" >>

\* open(path, 'wb'): the file is created or truncated
OpenAB(f, path) == f
OpenWB(f, path) == [f EXCEPT ![path] = <<>>]

\* `while data:` continues on any non-empty chunk
LoopContinues_FullOnly(d) == Len(d) = WordSize
LoopContinues(d) == d # <<>>

\* out_file.write(new_value) appends to the stream
BufWrite_Overwrite(buf, bytes) == bytes
BufWrite(buf, bytes) == buf \o bytes

\* the buffered bytes reach the file
Flush(f, path, buf) == [f EXCEPT ![path] = @ \o buf]

\* lines 5-7
ConvArgs ==
  /\ Prog = CONVERT
  /\ pc = "args"
  /\ IF ConvArgcOk(argv)
     THEN /\ pc' = "open_in"
          /\ UNCHANGED << stdout, exit_code >>
     ELSE /\ stdout' = stdout \o ConvUsage(argv)
          /\ exit_code' = 1
          /\ pc' = "done"
  /\ UNCHANGED << argv, fs, fs0, in_file, out_file, binary_file, data, ending,
                  iteration_count, i, fault, printed, log, changed, runs >>

\* line 9: in_file = open(sys.argv[1], 'rb'); the open may fail
ConvOpenIn ==
  /\ Prog = CONVERT
  /\ pc = "open_in"
  /\ \/ /\ in_file' = [state |-> "open", path |-> argv[2], pos |-> 0, buf |-> <<>>]
        /\ log' = Append(log, Op("open_rb", argv[2], 0, <<>>))
        /\ pc' = "open_out"
        /\ UNCHANGED << fault, exit_code >>
     \/ /\ fault' = "OSError"
        /\ exit_code' = 1
        /\ pc' = "done"
        /\ UNCHANGED << in_file, log >>
  /\ UNCHANGED << argv, fs, fs0, out_file, binary_file, data, ending,
                  iteration_count, i, stdout, printed, changed, runs >>

\* line 10: out_file = open(sys.argv[2], 'wb'), outside the try block
ConvOpenOut ==
  /\ Prog = CONVERT
  /\ pc = "open_out"
  /\ \/ /\ fs' = OpenWB(fs, argv[3])
        /\ out_file' = [state |-> "open", path |-> argv[3], pos |-> 0, buf |-> <<>>]
        /\ log' = Append(log, Op("open_wb", argv[3], 0, <<>>))
        /\ pc' = "read"
        /\ UNCHANGED << fault, exit_code >>
     \/ /\ fault' = "OSError"
        /\ exit_code' = 1
        /\ pc' = "done"
        /\ UNCHANGED << fs, out_file, log >>
  /\ UNCHANGED << argv, fs0, in_file, binary_file, data, ending,
                  iteration_count, i, stdout, printed, changed, runs >>

\* lines 13 and 18: data = in_file.read(4)
ConvRead ==
  /\ Prog = CONVERT
  /\ pc = "read"
  /\ \/ LET chunk == ReadAt(fs[in_file.path], in_file.pos, WordSize)
        IN  /\ data' = chunk
            /\ in_file' = [in_file EXCEPT !.pos = @ + Len(chunk)]
            /\ log' = Append(log, Op("read", in_file.path, in_file.pos, chunk))
            /\ pc' = "loop"
            /\ UNCHANGED fault
     \/ /\ fault' = "OSError"
        /\ pc' = "close_in"
        /\ UNCHANGED << data, in_file, log >>
  /\ UNCHANGED << argv, fs, fs0, out_file, binary_file, ending,
                  iteration_count, i, exit_code, stdout, printed, changed, runs >>

\* lines 14-17: the loop test, unpack, pack and write of one chunk
ConvLoop ==
  /\ Prog = CONVERT
  /\ pc = "loop"
  /\ IF ~LoopContinues(data)
     THEN /\ pc' = "close_in"
          /\ UNCHANGED << fs, out_file, fault, log >>
     ELSE IF Len(data) # WordSize \/ ~InRangeU32(UnpackBE(data))
     THEN /\ fault' = "struct.error"
          /\ pc' = "close_in"
          /\ UNCHANGED << fs, out_file, log >>
     ELSE LET value == UnpackBE(data)
              new_value == PackLE(value)
              buffered == BufWrite(out_file.buf, new_value)
          IN  \/ /\ out_file' = [out_file EXCEPT !.buf = buffered]
                 /\ log' = Append(log, Op("write", out_file.path, 0, new_value))
                 /\ pc' = "read"
                 /\ UNCHANGED << fs, fault >>
              \/ /\ fs' = Flush(fs, out_file.path, buffered)
                 /\ out_file' = [out_file EXCEPT !.buf = <<>>]
                 /\ log' = Append(log, Op("write", out_file.path, 0, new_value))
                 /\ pc' = "read"
                 /\ UNCHANGED fault
              \/ /\ fault' = "OSError"
                 /\ pc' = "close_in"
                 /\ UNCHANGED << fs, out_file, log >>
  /\ UNCHANGED << argv, fs0, in_file, binary_file, data, ending,
                  iteration_count, i, exit_code, stdout, printed, changed, runs >>

\* line 20: in_file.close()
ConvCloseIn ==
  /\ Prog = CONVERT
  /\ pc = "close_in"
  /\ in_file' = [in_file EXCEPT !.state = "closed"]
  /\ log' = Append(log, Op("close", in_file.path, 0, <<>>))
  /\ pc' = "close_out"
  /\ UNCHANGED << argv, fs, fs0, out_file, binary_file, data, ending,
                  iteration_count, i, fault, exit_code, stdout, printed,
                  changed, runs >>

\* line 21: out_file.close() flushes, then the script ends; a failing flush
\* still closes the stream and raises
ConvCloseOut ==
  /\ Prog = CONVERT
  /\ pc = "close_out"
  /\ log' = Append(log, Op("close", out_file.path, 0, <<>>))
  /\ pc' = "done"
  /\ \/ /\ fs' = Flush(fs, out_file.path, out_file.buf)
        /\ out_file' = [out_file EXCEPT !.state = "closed", !.buf = <<>>]
        /\ exit_code' = IF fault = "none" THEN 0 ELSE 1
        /\ UNCHANGED fault
     \/ /\ out_file.buf # <<>>
        /\ out_file' = [out_file EXCEPT !.state = "closed", !.buf = <<>>]
        /\ fault' = "OSError"
        /\ exit_code' = 1
        /\ UNCHANGED fs
  /\ UNCHANGED << argv, fs0, in_file, binary_file, data, ending,
                  iteration_count, i, stdout, printed, changed, runs >>

\* the converter is invoked a second time on the files the first run left
ConvAgain ==
  /\ Prog = CONVERT
  /\ pc = "done"
  /\ runs = <<>>
  /\ Len(argv) = 3
  /\ \E p \in Paths, q \in Paths : argv' = <<CONVERT, p, q>>
  /\ runs' = << [argv |-> argv, fs0 |-> fs0, exit_code |-> exit_code, fault |-> fault] >>
  /\ fs0' = fs
  /\ pc' = "args"
  /\ in_file' = Unopened
  /\ out_file' = Unopened
  /\ data' = <<>>
  /\ fault' = "none"
  /\ exit_code' = -1
  /\ stdout' = <<>>
  /\ log' = <<>>
  /\ UNCHANGED << fs, binary_file, ending, iteration_count, i, printed, changed >>

\* ================================================================= dumper
\* line 9: len(args) < 2 is the usage error
DumpArgcOk(args) == Len(args) >= 2

DumpUsage(args) ==
  << "Usage: ", args[1], " <filename> [seperator]", "\n",
     "\n",
     "\tDefault seperator is newline", "\n" >>

\* lines 7, 16-17: the separator is args[2] when given, else the newline
DumpEnding(args, default) == IF Len(args) > 2 THEN args[3] ELSE default

\* line 22: os.fstat(...).st_size // 4
IterationCount(size) == size \div WordSize

\* line 28: `except struct.error` is the only handler
DumpCatches_Nothing(exc) == FALSE
DumpCatches(exc) == exc = "struct.error"

\* line 31: print(result, end=ending)
PrintResult_Newline(out, result, sep) == out \o Decimal(result) \o << "\n" >>
PrintResult(out, result, sep) == out \o Decimal(result) \o << sep >>

\* lines 8-17
DumpArgs ==
  /\ Prog = DUMP
  /\ pc = "args"
  /\ IF DumpArgcOk(argv)
     THEN /\ ending' = DumpEnding(argv, ending)
          /\ pc' = "open"
          /\ UNCHANGED << stdout, exit_code >>
     ELSE /\ stdout' = stdout \o DumpUsage(argv)
          /\ exit_code' = 1
          /\ pc' = "done"
          /\ UNCHANGED ending
  /\ UNCHANGED << argv, fs, fs0, in_file, out_file, binary_file, data,
                  iteration_count, i, fault, printed, log, changed, runs >>

\* line 19: binary_file = open(filename, 'rb'); the open may fail
DumpOpen ==
  /\ Prog = DUMP
  /\ pc = "open"
  /\ \/ /\ binary_file' = [state |-> "open", path |-> argv[2], pos |-> 0, buf |-> <<>>]
        /\ log' = Append(log, Op("open_rb", argv[2], 0, <<>>))
        /\ pc' = "stat"
        /\ UNCHANGED << fault, exit_code >>
     \/ /\ fault' = "OSError"
        /\ exit_code' = 1
        /\ pc' = "done"
        /\ UNCHANGED << binary_file, log >>
  /\ UNCHANGED << argv, fs, fs0, in_file, out_file, data, ending,
                  iteration_count, i, stdout, printed, changed, runs >>

\* line 22: iteration_count from the size of the open file
DumpStat ==
  /\ Prog = DUMP
  /\ pc = "stat"
  /\ iteration_count' = IterationCount(Len(fs[binary_file.path]))
  /\ i' = 0
  /\ log' = Append(log, Op("fstat", binary_file.path, 0, <<>>))
  /\ pc' = "loop"
  /\ UNCHANGED << argv, fs, fs0, in_file, out_file, binary_file, data, ending,
                  fault, exit_code, stdout, printed, changed, runs >>

\* lines 23-31: one iteration of the for loop, or its end and the script's
DumpLoop ==
  /\ Prog = DUMP
  /\ pc = "loop"
  /\ IF i >= iteration_count
     THEN /\ exit_code' = 0
          /\ pc' = "done"
          /\ UNCHANGED << binary_file, data, i, fault, stdout, printed, log >>
     ELSE \/ LET chunk == ReadAt(fs[binary_file.path], binary_file.pos, WordSize)
             IN  /\ data' = chunk
                 /\ binary_file' = [binary_file EXCEPT !.pos = @ + Len(chunk)]
                 /\ log' = Append(log, Op("read", binary_file.path, binary_file.pos, chunk))
                 /\ IF Len(chunk) # WordSize
                    THEN \* unpack raises struct.error
                         IF DumpCatches("struct.error")
                         THEN /\ exit_code' = 0
                              /\ pc' = "done"
                              /\ UNCHANGED << i, fault, stdout, printed >>
                         ELSE /\ fault' = "struct.error"
                              /\ exit_code' = 1
                              /\ pc' = "done"
                              /\ UNCHANGED << i, stdout, printed >>
                    ELSE LET result == UnpackLE(chunk)
                         IN  /\ stdout' = PrintResult(stdout, result, ending)
                             /\ printed' = Append(printed, result)
                             /\ i' = i + 1
                             /\ UNCHANGED << pc, fault, exit_code >>
          \/ /\ fault' = "OSError"
             /\ exit_code' = 1
             /\ pc' = "done"
             /\ UNCHANGED << binary_file, data, i, stdout, printed, log >>
  /\ UNCHANGED << argv, fs, fs0, in_file, out_file, ending, iteration_count,
                  changed, runs >>

\* another process truncates the file while the dumper has it open
Truncate ==
  /\ Prog = DUMP
  /\ pc \in {"stat", "loop"}
  /\ ~changed
  /\ \E n \in 0..(Len(fs[binary_file.path]) - 1) :
       fs' = [fs EXCEPT ![binary_file.path] = SubSeq(@, 1, n)]
  /\ changed' = TRUE
  /\ UNCHANGED << argv, fs0, pc, in_file, out_file, binary_file, data, ending,
                  iteration_count, i, fault, exit_code, stdout, printed, log,
                  runs >>

Next ==
  \/ ConvArgs \/ ConvOpenIn \/ ConvOpenOut \/ ConvRead \/ ConvLoop
  \/ ConvCloseIn \/ ConvCloseOut \/ ConvAgain
  \/ DumpArgs \/ DumpOpen \/ DumpStat \/ DumpLoop \/ Truncate

Spec == Init /\ [][Next]_vars

\* ================================================================== claims
ConvRun == Prog = CONVERT /\ Len(argv) = 3
Distinct == argv[2] # argv[3]
\* the input file as the run found it
Input == fs0[argv[2]]
NoIOFault == fault # "OSError"
Last(s) == s[Len(s)]
Reads == SelectSeq(log, LAMBDA e : e.op = "read")
Writes == SelectSeq(log, LAMBDA e : e.op = "write")

\* the first k words of b, each with its four bytes reversed
Reversed(b, k) ==
  [n \in 1..(WordSize * k) |->
     b[((n - 1) \div WordSize) * WordSize + (WordSize - ((n - 1) % WordSize))]]

\* C1: a converter run on an input of 4k bytes, with distinct paths and no
\* I/O failure, ends with exit 0 and an output of the same length whose
\* i-th word is the i-th input word with its bytes reversed.
C1_ConvertsEveryWord ==
  (ConvRun /\ Distinct /\ pc = "done" /\ NoIOFault /\ Len(Input) % WordSize = 0)
    => /\ exit_code = 0
       /\ fault = "none"
       /\ Len(fs[argv[3]]) = Len(Input)
       /\ \A w \in 0..(Len(Input) \div WordSize - 1) : \A j \in 1..WordSize :
            fs[argv[3]][WordSize * w + j] = Input[WordSize * w + (WordSize + 1 - j)]

C1_Witness ==
  /\ ConvRun /\ Distinct /\ pc = "done" /\ exit_code = 0
  /\ Input = <<0, 0, 0, 1, 18, 52, 86, 200>>
  /\ fs[argv[3]] = <<1, 0, 0, 0, 200, 86, 52, 18>>

\* C2: converting a file of 4k bytes and then converting the result again
\* succeeds and reproduces the original bytes.
C2_RoundTrip ==
  (/\ ConvRun /\ Distinct /\ pc = "done" /\ NoIOFault
   /\ runs # <<>>
   /\ runs[1].exit_code = 0
   /\ runs[1].argv[2] # runs[1].argv[3]
   /\ Len(runs[1].fs0[runs[1].argv[2]]) % WordSize = 0
   /\ argv[2] = runs[1].argv[3])
    => /\ exit_code = 0
       /\ fs[argv[3]] = runs[1].fs0[runs[1].argv[2]]

C2_Witness ==
  /\ ConvRun /\ pc = "done" /\ exit_code = 0
  /\ runs # <<>> /\ runs[1].exit_code = 0
  /\ runs[1].argv = <<CONVERT, "a", "b">> /\ argv = <<CONVERT, "b", "a">>
  /\ runs[1].fs0["a"] = <<18, 52, 86, 200, 255, 255, 255, 255>>
  /\ fs["b"] = <<200, 86, 52, 18, 255, 255, 255, 255>>
  /\ fs["a"] = <<18, 52, 86, 200, 255, 255, 255, 255>>

\* C3: on an input of N bytes, N not a multiple of 4, the last read returns
\* the 1-3 trailing bytes, the run ends with struct.error propagated and a
\* nonzero exit, and the output holds exactly the N \div 4 converted words.
C3_FailFast ==
  (ConvRun /\ Distinct /\ pc = "done" /\ NoIOFault /\ Len(Input) % WordSize # 0)
    => /\ fault = "struct.error"
       /\ exit_code # 0
       /\ fs[argv[3]] = Reversed(Input, Len(Input) \div WordSize)
       /\ Reads # <<>>
       /\ Len(Last(Reads).data) \in 1..(WordSize - 1)
       /\ Last(Reads).data =
            SubSeq(Input, WordSize * (Len(Input) \div WordSize) + 1, Len(Input))

C3_Witness ==
  /\ ConvRun /\ Distinct /\ pc = "done"
  /\ Input = <<2, 0, 0, 0, 0, 2>>
  /\ fault = "struct.error" /\ exit_code = 1
  /\ fs[argv[3]] = <<0, 0, 0, 2>>

DumpRun == Prog = DUMP /\ Len(argv) >= 2
\* the separator the command line asks for
Separator == IF Len(argv) > 2 THEN argv[3] ELSE "\n"
\* the k-th 4-byte word of b, k from 1
WordAt(b, k) == SubSeq(b, WordSize * (k - 1) + 1, WordSize * k)
\* the unsigned little-endian value of a 4-byte word, as <<high half, low half>>
ValueLE(w) == << 256 * w[4] + w[3], 256 * w[2] + w[1] >>

\* the decimal text of the little-endian value of each sample word
SampleText(w) ==
  CASE w = <<0, 0, 0, 1>> -> << "1", "6", "7", "7", "7", "2", "1", "6" >>
    [] w = <<1, 0, 0, 0>> -> << "1" >>
    [] w = <<2, 0, 0, 0>> -> << "2" >>
    [] w = <<255, 255, 255, 255>> ->
         << "4", "2", "9", "4", "9", "6", "7", "2", "9", "5" >>
    [] w = <<18, 52, 86, 200>> ->
         << "3", "3", "6", "1", "0", "9", "2", "6", "2", "6" >>

\* the text of the first k words of b, each followed by sep
RECURSIVE ExpectedOutput(_, _, _)
ExpectedOutput(b, k, sep) ==
  IF k = 0 THEN <<>>
  ELSE ExpectedOutput(b, k - 1, sep) \o SampleText(WordAt(b, k)) \o << sep >>

\* C4: on a file of N bytes that nobody changes, the dumper prints N \div 4
\* values, the k-th being the little-endian value of bytes 4k..4k+3, ignores
\* the trailing bytes and exits 0.
C4_WordCountAndOrder ==
  (DumpRun /\ pc = "done" /\ ~changed /\ NoIOFault)
    => /\ exit_code = 0
       /\ fault = "none"
       /\ Len(printed) = Len(Input) \div WordSize
       /\ \A k \in 1..Len(printed) : printed[k] = ValueLE(WordAt(Input, k))

C4_Witness ==
  /\ DumpRun /\ pc = "done" /\ ~changed /\ exit_code = 0
  /\ Input = <<1, 0, 0, 0, 0, 2>>
  /\ printed = << <<0, 1>> >>

\* C5: standard output is, for each decoded word in order, its decimal text
\* followed by the separator (argv[2] verbatim, else a newline) and nothing
\* else; 01 00 00 00 02 00 00 00 with ',' prints 1,2,
C5_SeparatorPassthrough ==
  /\ DumpRun => stdout = ExpectedOutput(Input, Len(printed), Separator)
  /\ (DumpRun /\ pc = "done" /\ ~changed /\ NoIOFault)
       => stdout = ExpectedOutput(Input, Len(Input) \div WordSize, Separator)
  /\ (DumpRun /\ pc = "done" /\ ~changed /\ NoIOFault
        /\ Input = <<1, 0, 0, 0, 2, 0, 0, 0>> /\ argv = <<DUMP, "a", ",">>)
       => stdout = << "1", ",", "2", "," >>

C5_Witness ==
  /\ pc = "done" /\ exit_code = 0
  /\ Input = <<1, 0, 0, 0, 2, 0, 0, 0>> /\ argv = <<DUMP, "a", ",">>
  /\ stdout = << "1", ",", "2", "," >>

C5_WitnessDefault ==
  /\ pc = "done" /\ exit_code = 0
  /\ argv = <<DUMP, "a">>
  /\ stdout = << "4", "2", "9", "4", "9", "6", "7", "2", "9", "5", "\n" >>

\* C6: a read in the loop that returns fewer than 4 bytes ends the run at
\* once, with exit 0 and no fault, nothing printed for the short chunk and
\* every earlier chunk printed.
C6_ShortReadRecovered ==
  (Prog = DUMP /\ Reads # <<>> /\ Len(Last(Reads).data) < WordSize)
    => /\ pc = "done"
       /\ exit_code = 0
       /\ fault = "none"
       /\ Last(log).op = "read"
       /\ Len(printed) = Len(Reads) - 1
       /\ \A k \in 1..Len(printed) : printed[k] = ValueLE(Reads[k].data)
       /\ stdout = ExpectedOutput(Input, Len(Reads) - 1, Separator)

\* the file lost everything after the first word, read at the second iteration
C6_Witness ==
  /\ Prog = DUMP /\ pc = "done" /\ changed /\ exit_code = 0
  /\ iteration_count = 2
  /\ Len(Reads) = 2 /\ Reads[2].data = <<>>
  /\ Len(printed) = 1

\* the file was cut inside its first word
C6_WitnessPartial ==
  /\ Prog = DUMP /\ pc = "done" /\ changed /\ exit_code = 0
  /\ Len(Reads) = 1 /\ Len(Reads[1].data) = 3
  /\ stdout = <<>>

\* C7: the converter with other than two arguments, and the dumper with no
\* filename, print a usage string, exit 1 and perform no file operation.
BadUsage ==
  \/ Prog = CONVERT /\ Len(argv) # 3
  \/ Prog = DUMP /\ Len(argv) < 2

C7_UsageEnforcement ==
  BadUsage
    => /\ log = <<>>
       /\ fs = fs0
       /\ in_file = Unopened /\ out_file = Unopened /\ binary_file = Unopened
       /\ pc \in {"args", "done"}
       /\ pc = "done" => /\ exit_code = 1
                         /\ fault = "none"
                         /\ stdout # <<>> /\ stdout[1] = "Usage: "
                         /\ stdout[2] = argv[1]

C7_Witness ==
  /\ argv = <<CONVERT, "a", "b", "b">> /\ pc = "done" /\ exit_code = 1
  /\ stdout = << "Usage: ", CONVERT, " <in_file> <out_file>", "\n" >>

C7_WitnessDump ==
  /\ argv = <<DUMP>> /\ pc = "done" /\ exit_code = 1 /\ Len(stdout) = 7

\* C8: when a converter run has ended, no stream it opened is still open.
C8_AllStreamsClosed ==
  (Prog = CONVERT /\ pc = "done")
    => in_file.state # "open" /\ out_file.state # "open"

\* the paths on which the try/finally does run
C8_ClosedAfterTry ==
  (Prog = CONVERT /\ pc = "done" /\ out_file.state # "unopened")
    => in_file.state = "closed" /\ out_file.state = "closed"

\* bytes handed to the output stream so far
Written == fs[argv[3]] \o out_file.buf
\* bytes of the chunk that was read and is waiting for its turn in the loop
Pending == IF pc = "loop" THEN Len(data) ELSE 0

RECURSIVE Concat(_)
Concat(ws) == IF ws = <<>> THEN <<>> ELSE Concat(SubSeq(ws, 1, Len(ws) - 1)) \o Last(ws).data

\* C9: with distinct paths, the output always holds the converted first k
\* input words, k the number of full chunks the loop has taken; it is the
\* writes in order, the n-th write being the n-th chunk read, each made before
\* the next read; the reads go through the input front to back, once.
C9_PrefixInvariant ==
  (ConvRun /\ Distinct /\ NoIOFault /\ out_file.state # "unopened")
    => LET k == (in_file.pos - Pending) \div WordSize
       IN  /\ Written = Reversed(Input, k)
           /\ Written = Concat(Writes)
           /\ Len(Writes) = k
           /\ \A n \in 1..Len(Writes) : Writes[n].data = Reversed(Reads[n].data, 1)
           /\ \A n \in 1..Len(Reads) :
                /\ Reads[n].pos = WordSize * (n - 1)
                /\ Reads[n].data = ReadAt(Input, Reads[n].pos, WordSize)
           /\ pc = "read" => Len(Writes) = Len(Reads)
           /\ in_file.pos <= Len(Input)

C9_Witness ==
  /\ ConvRun /\ Distinct /\ pc = "loop"
  /\ Input = <<0, 0, 0, 1, 18, 52, 86, 200, 1>>
  /\ data = <<18, 52, 86, 200>>
  /\ Written = <<1, 0, 0, 0>>

\* C10: when both arguments name one file, it is truncated by the open for
\* writing before the first read, which returns nothing; the loop body never
\* runs and the run exits 0 with the file empty.
C10_Aliasing ==
  (ConvRun /\ ~Distinct /\ NoIOFault)
    => /\ pc \in {"read", "loop", "close_in", "close_out", "done"} => fs[argv[2]] = <<>>
       /\ Writes = <<>>
       /\ \A n \in 1..Len(Reads) : Reads[n].data = <<>>
       /\ Len(Reads) <= 1
       /\ pc = "done" => exit_code = 0 /\ Len(Reads) = 1

C10_Witness ==
  /\ argv = <<CONVERT, "a", "a">> /\ pc = "done" /\ exit_code = 0
  /\ fs0["a"] = <<1, 0, 0, 0, 2, 0, 0, 0>>
  /\ fs["a"] = <<>>

====
